---- MODULE Spec2Model ----
(***************************************************************************)
(* Model of build.py: the build script that assembles the Markdown         *)
(* chapters and exercises into one HTML document and renders it to a PDF   *)
(* with a headless Chromium driven through Playwright.                     *)
(*                                                                         *)
(* Text is modelled as a sequence of one-character strings, so that        *)
(* str.replace, the section wrapper and the checkbox widgets are computed  *)
(* character by character.  A file on disk is <<>> when it does not exist  *)
(* and <<content>> when it does.                                           *)
(***************************************************************************)
EXTENDS Integers, Sequences, FiniteSets, TLC

----------------------------------------------------------------------------
(* Bounds *)

\* how many of the configured chapter files the model keeps
NumChapters == 3
\* how many of the configured exercise files the model keeps
NumExercises == 2
\* how many times main is run in succession
MaxRuns == 2
\* longest converted fragment handed to the checkbox substitution on its own
MaxLen == 6

----------------------------------------------------------------------------
(* Configuration (build.py lines 22-87) *)

CONTENT_DIR == "content"
EXERCISES_DIR == "exercises"

AllChapters ==
    << "chapter-01-ai-landscape.md",
       "chapter-02-how-llms-work.md",
       "chapter-03-threat-modeling.md",
       "chapter-04-prompt-injection.md",
       "chapter-05-jailbreaks-guardrail-bypass.md",
       "chapter-06-data-leakage-privacy.md",
       "chapter-07-secure-ai-design.md",
       "chapter-08-supply-chain-security.md",
       "chapter-09-reference-architectures.md",
       "chapter-10-ai-security-program.md",
       "appendix-a-cheat-sheet.md",
       "appendix-b-tools-resources.md",
       "appendix-c-glossary.md" >>

AllExercises ==
    << "exercise-01-threat-model-chatbot.md",
       "exercise-02-prompt-injection-lab.md",
       "exercise-03-design-review.md",
       "exercise-04-supply-chain-audit.md",
       "exercise-05-architecture-challenge.md" >>

\* the first NumChapters entries of the configured list, in its order
CHAPTERS == SubSeq(AllChapters, 1, NumChapters)

\* the first NumExercises entries of the configured list, in its order
EXERCISES == SubSeq(AllExercises, 1, NumExercises)

COVER == "cover-page"

TOC_ENTRIES ==
    << <<"Chapter 1: The AI Security Landscape", TRUE>>,
       <<"Appendix A: AI Security Cheat Sheet", FALSE>>,
       <<"Exercises", FALSE>> >>

Range(s) == {s[i] : i \in 1..Len(s)}

\* every path the two md_to_html calls look at
ConfiguredPaths ==
    {<<CONTENT_DIR, n>> : n \in Range(CHAPTERS)} \cup
    {<<EXERCISES_DIR, n>> : n \in Range(EXERCISES)}

----------------------------------------------------------------------------
(* Text helpers *)

RECURSIVE IndexOf(_, _)
IndexOf(s, x) == IF s = <<>> THEN 0
                 ELSE IF Head(s) = x THEN 1
                 ELSE 1 + IndexOf(Tail(s), x)

\* i copies of the character c
Repeat(c, i) == [j \in 1..i |-> c]

UncheckedToken == <<"[", " ", "]">>
CheckedToken == <<"[", "x", "]">>

\* '<input type="checkbox" disabled>'
UncheckedWidget ==
    << "<","i","n","p","u","t"," ","t","y","p","e","=","\"",
       "c","h","e","c","k","b","o","x","\""," ",
       "d","i","s","a","b","l","e","d",">" >>

\* '<input type="checkbox" checked disabled>'
CheckedWidget ==
    << "<","i","n","p","u","t"," ","t","y","p","e","=","\"",
       "c","h","e","c","k","b","o","x","\""," ",
       "c","h","e","c","k","e","d"," ",
       "d","i","s","a","b","l","e","d",">" >>

\* str.replace(old, new): leftmost non-overlapping occurrences, one pass
RECURSIVE Replace(_, _, _)
Replace(s, old, new) ==
    IF Len(s) < Len(old) THEN s
    ELSE IF SubSeq(s, 1, Len(old)) = old
         THEN new \o Replace(SubSeq(s, Len(old) + 1, Len(s)), old, new)
         ELSE <<Head(s)>> \o Replace(Tail(s), old, new)

\* a buggy replace that stops after the first occurrence (count=1)
RECURSIVE ReplaceFirst(_, _, _)
ReplaceFirst(s, old, new) ==
    IF Len(s) < Len(old) THEN s
    ELSE IF SubSeq(s, 1, Len(old)) = old
         THEN new \o SubSeq(s, Len(old) + 1, Len(s))
         ELSE <<Head(s)>> \o ReplaceFirst(Tail(s), old, new)

CheckboxSubstFirstOnly(html) ==
    ReplaceFirst(ReplaceFirst(html, UncheckedToken, UncheckedWidget),
                 CheckedToken, CheckedWidget)

\* lines 119-120: the two successive replacements
CheckboxSubst(html) ==
    Replace(Replace(html, UncheckedToken, UncheckedWidget),
            CheckedToken, CheckedWidget)

\* markdown.markdown on a one-paragraph text without inline markup:
\* the text wrapped in <p>...</p>
Markdown(md_text) == <<"<", "p", ">">> \o md_text \o <<"<", "/", "p", ">">>

\* line 121: '<div class="chapter">\n{html}\n</div>'
SectionWrap(html) ==
    << "<","d","i","v"," ","c","l","a","s","s","=","\"",
       "c","h","a","p","t","e","r","\"",">","\n" >>
    \o html \o
    << "\n","<","/","d","i","v",">" >>

\* the text of a content file: one paragraph, different for every file,
\* holding an unchecked box in odd positions and a checked box in even ones
FileText(source_dir, filename) ==
    LET i == IF source_dir = CONTENT_DIR THEN IndexOf(AllChapters, filename)
             ELSE IndexOf(AllExercises, filename)
        k == IF source_dir = CONTENT_DIR THEN "c" ELSE "e"
    IN  <<k>> \o Repeat("a", i) \o
        (IF i % 2 = 1 THEN UncheckedToken ELSE CheckedToken)

----------------------------------------------------------------------------
(* Printed lines *)

NoFile == ""

Line(tag, file, n) == [tag |-> tag, file |-> file, n |-> n]

----------------------------------------------------------------------------
(* build_toc, md_to_html, build_document *)

\* lines 90-102: one list item per entry, classed by its flag
build_toc(entries) ==
    [i \in 1..Len(entries) |->
        [class |-> IF entries[i][2] THEN "chapter-entry" ELSE "appendix-entry",
         title |-> entries[i][1]]]

\* lines 116-121: read, convert, substitute the checkboxes, wrap
SectionOf(source_dir, filename) ==
    SectionWrap(CheckboxSubst(Markdown(FileText(source_dir, filename))))

\* a buggy loop that leaves at the first missing file (break for continue)
RECURSIVE md_to_html_break(_, _, _)
md_to_html_break(fs, source_dir, filenames) ==
    IF filenames = <<>> THEN [sections |-> <<>>, printed |-> <<>>]
    ELSE IF <<source_dir, Head(filenames)>> \notin fs
         THEN [sections |-> <<>>,
               printed |-> <<Line("WARNING", Head(filenames), 0)>>]
         ELSE LET rest == md_to_html_break(fs, source_dir, Tail(filenames))
              IN  [sections |-> <<SectionOf(source_dir, Head(filenames))>>
                                \o rest.sections,
                   printed |-> rest.printed]

\* lines 105-123: the sections of the files that exist, and what is printed
RECURSIVE md_to_html(_, _, _)
md_to_html(fs, source_dir, filenames) ==
    IF filenames = <<>> THEN [sections |-> <<>>, printed |-> <<>>]
    ELSE LET rest == md_to_html(fs, source_dir, Tail(filenames))
         IN  IF <<source_dir, Head(filenames)>> \notin fs
             THEN [sections |-> rest.sections,
                   printed |-> <<Line("WARNING", Head(filenames), 0)>>
                               \o rest.printed]
             ELSE [sections |-> <<SectionOf(source_dir, Head(filenames))>>
                                \o rest.sections,
                   printed |-> rest.printed]

\* a buggy concatenation that puts the exercises first
AllSectionsSwapped(chapter_sections, exercise_sections) ==
    exercise_sections \o chapter_sections

\* line 138
AllSections(chapter_sections, exercise_sections) ==
    chapter_sections \o exercise_sections

\* lines 140-153: the template with its four slots filled
Document(css, all_sections) ==
    [css |-> css,
     cover |-> COVER,
     toc |-> build_toc(TOC_ENTRIES),
     sections |-> all_sections]

\* the text of style.css
StyleText == "style.css"

\* what build_document prints, lines 131-136
BuildPrinted(fs) ==
    LET ch == md_to_html(fs, CONTENT_DIR, CHAPTERS)
        ex == md_to_html(fs, EXERCISES_DIR, EXERCISES)
    IN  ch.printed \o <<Line("Loaded chapters", NoFile, Len(ch.sections))>>
        \o ex.printed \o <<Line("Loaded exercises", NoFile, Len(ex.sections))>>

\* what build_document returns, lines 128-153
BuildResult(fs) ==
    LET ch == md_to_html(fs, CONTENT_DIR, CHAPTERS)
        ex == md_to_html(fs, EXERCISES_DIR, EXERCISES)
    IN  Document(StyleText, AllSections(ch.sections, ex.sections))

----------------------------------------------------------------------------
(* Path operations and the engine *)

\* OUTPUT_DIR.mkdir(exist_ok=...): the new state of the path, and whether it
\* raised (FileExistsError when the path exists and exist_ok is off or the
\* path is not a directory)
Mkdir(dir, exist_ok) ==
    IF dir = "absent" THEN [dir |-> "dir", raised |-> FALSE]
    ELSE IF dir = "dir" /\ exist_ok THEN [dir |-> "dir", raised |-> FALSE]
    ELSE [dir |-> dir, raised |-> TRUE]

\* Path.unlink(missing_ok=...): the new state of the file, and whether it
\* raised (FileNotFoundError on an absent file when missing_ok is off)
Unlink(file, missing_ok) ==
    IF file # <<>> THEN [file |-> <<>>, raised |-> FALSE]
    ELSE [file |-> <<>>, raised |-> ~missing_ok]

\* a mkdir that forgot exist_ok
MkdirOutputStrict(dir) == Mkdir(dir, FALSE)

\* line 192
MkdirOutput(dir) == Mkdir(dir, TRUE)

\* an unlink that forgot missing_ok
UnlinkHtmlStrict(file) == Unlink(file, FALSE)

\* line 198
UnlinkHtml(file) == Unlink(file, TRUE)

\* an exit that leaves the driver and its browser running
StopEngineLeak(e) == e

\* leaving the with block of line 160: the driver is stopped, and a browser
\* it still has open goes down with it
StopEngine(e) ==
    [driver |-> "stopped",
     browser |-> IF e.browser = "open" THEN "closed" ELSE e.browser]

\* page.pdf of the loaded page: the paginated sections in their order
Paginate(doc) == [format |-> "Letter", content |-> doc]

NoEngine == [driver |-> "none", browser |-> "none"]

\* the failures of the rendering engine, by the call that raised
EngineErrors ==
    {"sync_playwright", "launch", "new_page", "goto", "wait_for_load_state",
     "pdf", "close"}

----------------------------------------------------------------------------
(* State *)

VARIABLES
    files,      \* the configured content paths that exist on disk
    style,      \* style.css: "readable", "missing" or "unreadable"
    outDir,     \* the export path: "absent", "dir" or "file"
    htmlFile,   \* HTML_FILE on disk
    pdfFile,    \* PDF_FILE on disk
    pc,         \* where main is
    save_html,  \* "--html" in sys.argv
    html,       \* main's local: the document build_document returned
    stdout,     \* the lines printed in this run
    effects,    \* the file-system calls made in this run, in order
    error,      \* the call whose exception is propagating, or "none"
    engine,     \* the Playwright driver and its browser
    page,       \* the document the browser page has loaded
    launches,   \* chromium.launch calls in this run
    run,        \* which run of main this is
    prev,       \* how the previous run ended
    conv_in,    \* a converted fragment given to the checkbox substitution
    conv_out,   \* the fragment after the substitution
    conv_done   \* whether the substitution has been applied

vars == <<files, style, outDir, htmlFile, pdfFile, pc, save_html, html,
          stdout, effects, error, engine, page, launches, run, prev,
          conv_in, conv_out, conv_done>>

inputs == <<files, style>>
convVars == <<conv_in, conv_out, conv_done>>

NoPrev == [outcome |-> "none", flag |-> FALSE, html |-> <<>>,
           htmlFile |-> <<>>, pdfFile |-> <<>>, outDir |-> "absent"]

\* a fresh checkout: any subset of the content files, any state of the style
\* sheet, nothing exported yet
Init ==
    /\ files \in SUBSET ConfiguredPaths
    /\ style \in {"readable", "missing", "unreadable"}
    /\ outDir \in {"absent", "dir", "file"}
    /\ htmlFile = <<>>
    /\ pdfFile = <<>>
    /\ pc = "main"
    /\ save_html = FALSE
    /\ html = <<>>
    /\ stdout = <<>>
    /\ effects = <<>>
    /\ error = "none"
    /\ engine = NoEngine
    /\ page = <<>>
    /\ launches = 0
    /\ run = 1
    /\ prev = NoPrev
    /\ conv_in = <<>>
    /\ conv_out = <<>>
    /\ conv_done = FALSE

----------------------------------------------------------------------------
(* main, lines 189-200 *)

\* lines 190-194: read the flag, make the output directory, announce
MainStart ==
    /\ pc = "main"
    /\ \E flag \in BOOLEAN :
        /\ save_html' = flag
        /\ LET m == MkdirOutput(outDir)
           IN  /\ outDir' = m.dir
               /\ effects' = Append(effects, "mkdir")
               /\ IF m.raised
                  THEN /\ pc' = "aborted"
                       /\ error' = "mkdir"
                       /\ stdout' = stdout
                  ELSE /\ pc' = "build"
                       /\ error' = error
                       /\ stdout' = Append(stdout, Line("Building", NoFile, 0))
    /\ UNCHANGED <<inputs, htmlFile, pdfFile, html, engine, page, launches,
                   run, prev, convVars>>

\* a build_document that swallows the style sheet error and goes on
BuildDocumentNoStyle ==
    /\ pc = "build"
    /\ html' = <<Document(IF style = "readable" THEN StyleText ELSE "",
                          BuildResult(files).sections)>>
    /\ stdout' = stdout \o BuildPrinted(files)
    /\ pc' = "render_pdf"
    /\ UNCHANGED <<inputs, outDir, htmlFile, pdfFile, save_html, effects,
                   error, engine, page, launches, run, prev, convVars>>

\* line 195: build_document, lines 126-153; the read of line 128 raises when
\* the style sheet is missing or unreadable
BuildDocument ==
    /\ pc = "build"
    /\ IF style # "readable"
       THEN /\ pc' = "aborted"
            /\ error' = "style"
            /\ UNCHANGED <<html, stdout>>
       ELSE /\ html' = <<BuildResult(files)>>
            /\ stdout' = stdout \o BuildPrinted(files)
            /\ pc' = "render_pdf"
            /\ error' = error
    /\ UNCHANGED <<inputs, outDir, htmlFile, pdfFile, save_html, effects,
                   engine, page, launches, run, prev, convVars>>

----------------------------------------------------------------------------
(* render_pdf, lines 156-186 *)

\* line 158: persist the document
WriteHtml ==
    /\ pc = "render_pdf"
    /\ htmlFile' = html
    /\ effects' = Append(effects, "write_html")
    /\ pc' = "sync_playwright"
    /\ UNCHANGED <<inputs, outDir, pdfFile, save_html, html, stdout, error,
                   engine, page, launches, run, prev, convVars>>

\* line 160: entering the with block starts the driver, or raises
EnterWith ==
    /\ pc = "sync_playwright"
    /\ \E ok \in BOOLEAN :
        IF ok
        THEN /\ engine' = [engine EXCEPT !.driver = "running"]
             /\ pc' = "launch"
             /\ error' = error
        ELSE /\ engine' = engine
             /\ pc' = "aborted"
             /\ error' = "sync_playwright"
    /\ UNCHANGED <<inputs, outDir, htmlFile, pdfFile, save_html, html, stdout,
                   effects, page, launches, run, prev, convVars>>

\* line 161
Launch ==
    /\ pc = "launch"
    /\ launches' = launches + 1
    /\ \E ok \in BOOLEAN :
        IF ok
        THEN /\ engine' = [engine EXCEPT !.browser = "open"]
             /\ pc' = "new_page"
             /\ error' = error
        ELSE /\ engine' = engine
             /\ pc' = "exit_exc"
             /\ error' = "launch"
    /\ UNCHANGED <<inputs, outDir, htmlFile, pdfFile, save_html, html, stdout,
                   effects, page, run, prev, convVars>>

\* line 162
NewPage ==
    /\ pc = "new_page"
    /\ \E ok \in BOOLEAN :
        IF ok
        THEN /\ pc' = "goto"
             /\ error' = error
        ELSE /\ pc' = "exit_exc"
             /\ error' = "new_page"
    /\ UNCHANGED <<inputs, outDir, htmlFile, pdfFile, save_html, html, stdout,
                   effects, engine, page, launches, run, prev, convVars>>

\* line 163: the page loads what is at the intermediate path; a file that
\* is not there cannot be loaded
Goto ==
    /\ pc = "goto"
    /\ \E ok \in BOOLEAN :
        IF ok /\ htmlFile # <<>>
        THEN /\ page' = htmlFile
             /\ pc' = "wait_for_load_state"
             /\ error' = error
        ELSE /\ page' = page
             /\ pc' = "exit_exc"
             /\ error' = "goto"
    /\ UNCHANGED <<inputs, outDir, htmlFile, pdfFile, save_html, html, stdout,
                   effects, engine, launches, run, prev, convVars>>

\* line 164
WaitForLoadState ==
    /\ pc = "wait_for_load_state"
    /\ \E ok \in BOOLEAN :
        IF ok
        THEN /\ pc' = "pdf"
             /\ error' = error
        ELSE /\ pc' = "exit_exc"
             /\ error' = "wait_for_load_state"
    /\ UNCHANGED <<inputs, outDir, htmlFile, pdfFile, save_html, html, stdout,
                   effects, engine, page, launches, run, prev, convVars>>

\* lines 165-182: paginate the loaded page to the final path (overwriting)
Pdf ==
    /\ pc = "pdf"
    /\ \E ok \in BOOLEAN :
        IF ok
        THEN /\ pdfFile' = <<Paginate(page[1])>>
             /\ effects' = Append(effects, "write_pdf")
             /\ pc' = "close"
             /\ error' = error
        ELSE /\ UNCHANGED <<pdfFile, effects>>
             /\ pc' = "exit_exc"
             /\ error' = "pdf"
    /\ UNCHANGED <<inputs, outDir, htmlFile, save_html, html, stdout,
                   engine, page, launches, run, prev, convVars>>

\* line 183
BrowserClose ==
    /\ pc = "close"
    /\ \E ok \in BOOLEAN :
        IF ok
        THEN /\ engine' = [engine EXCEPT !.browser = "closed"]
             /\ pc' = "exit_with"
             /\ error' = error
        ELSE /\ engine' = engine
             /\ pc' = "exit_exc"
             /\ error' = "close"
    /\ UNCHANGED <<inputs, outDir, htmlFile, pdfFile, save_html, html, stdout,
                   effects, page, launches, run, prev, convVars>>

\* line 160, leaving the with block normally
ExitWith ==
    /\ pc = "exit_with"
    /\ engine' = StopEngine(engine)
    /\ pc' = "stat"
    /\ UNCHANGED <<inputs, outDir, htmlFile, pdfFile, save_html, html, stdout,
                   effects, error, page, launches, run, prev, convVars>>

\* an exception handler that starts the engine again
ExitExcRetry ==
    /\ pc = "exit_exc"
    /\ launches < 3
    /\ engine' = StopEngine(engine)
    /\ pc' = "sync_playwright"
    /\ error' = "none"
    /\ UNCHANGED <<inputs, outDir, htmlFile, pdfFile, save_html, html, stdout,
                   effects, page, launches, run, prev, convVars>>

\* an exception path that removes the intermediate artifact as well
ExitExcCleanup ==
    /\ pc = "exit_exc"
    /\ engine' = StopEngine(engine)
    /\ htmlFile' = IF save_html THEN htmlFile ELSE UnlinkHtml(htmlFile).file
    /\ pc' = "aborted"
    /\ UNCHANGED <<inputs, outDir, pdfFile, save_html, html, stdout,
                   effects, error, page, launches, run, prev, convVars>>

\* line 160, leaving the with block on an exception: the driver is stopped
\* and the exception goes on through render_pdf and main
ExitExc ==
    /\ pc = "exit_exc"
    /\ engine' = StopEngine(engine)
    /\ pc' = "aborted"
    /\ UNCHANGED <<inputs, outDir, htmlFile, pdfFile, save_html, html, stdout,
                   effects, error, page, launches, run, prev, convVars>>

\* lines 185-186: stat the final artifact and report its size
ReportSize ==
    /\ pc = "stat"
    /\ IF pdfFile = <<>>
       THEN /\ pc' = "aborted"
            /\ error' = "stat"
            /\ stdout' = stdout
       ELSE /\ pc' = "cleanup"
            /\ error' = error
            /\ stdout' = Append(stdout, Line("PDF saved", NoFile, 0))
    /\ UNCHANGED <<inputs, outDir, htmlFile, pdfFile, save_html, html,
                   effects, engine, page, launches, run, prev, convVars>>

\* a cleanup that ignores the retention flag
CleanupAlways ==
    /\ pc = "cleanup"
    /\ htmlFile' = UnlinkHtml(htmlFile).file
    /\ effects' = Append(effects, "unlink")
    /\ pc' = "finish"
    /\ UNCHANGED <<inputs, outDir, pdfFile, save_html, html, stdout, error,
                   engine, page, launches, run, prev, convVars>>

\* lines 197-198
Cleanup ==
    /\ pc = "cleanup"
    /\ IF save_html
       THEN /\ pc' = "finish"
            /\ UNCHANGED <<htmlFile, effects, error>>
       ELSE LET u == UnlinkHtml(htmlFile)
            IN  /\ htmlFile' = u.file
                /\ effects' = Append(effects,
                        IF htmlFile = <<>> THEN "unlink_absent" ELSE "unlink")
                /\ IF u.raised
                   THEN pc' = "aborted" /\ error' = "unlink"
                   ELSE pc' = "finish" /\ error' = error
    /\ UNCHANGED <<inputs, outDir, pdfFile, save_html, html, stdout,
                   engine, page, launches, run, prev, convVars>>

\* line 200
PrintDone ==
    /\ pc = "finish"
    /\ stdout' = Append(stdout, Line("Done", NoFile, 0))
    /\ pc' = "done"
    /\ UNCHANGED <<inputs, outDir, htmlFile, pdfFile, save_html, html,
                   effects, error, engine, page, launches, run, prev,
                   convVars>>

\* lines 203-204: the script is invoked again on the disk the last run left
Rerun ==
    /\ pc \in {"done", "aborted"}
    /\ run < MaxRuns
    /\ prev' = [outcome |-> pc, flag |-> save_html, html |-> html,
                htmlFile |-> htmlFile, pdfFile |-> pdfFile, outDir |-> outDir]
    /\ run' = run + 1
    /\ pc' = "main"
    /\ html' = <<>>
    /\ stdout' = <<>>
    /\ effects' = <<>>
    /\ error' = "none"
    /\ engine' = NoEngine
    /\ page' = <<>>
    /\ launches' = 0
    /\ UNCHANGED <<inputs, outDir, htmlFile, pdfFile, save_html, convVars>>

Next ==
    \/ MainStart
    \/ BuildDocument
    \/ WriteHtml
    \/ EnterWith
    \/ Launch
    \/ NewPage
    \/ Goto
    \/ WaitForLoadState
    \/ Pdf
    \/ BrowserClose
    \/ ExitWith
    \/ ExitExc
    \/ ReportSize
    \/ Cleanup
    \/ PrintDone
    \/ Rerun

Spec == Init /\ [][Next]_vars

----------------------------------------------------------------------------
(* The build next to another process that removes the intermediate file *)

\* something else on the machine deletes HTML_FILE while main is running
EnvRemoveHtml ==
    /\ pc \notin {"main", "done", "aborted", "conv"}
    /\ htmlFile # <<>>
    /\ htmlFile' = <<>>
    /\ UNCHANGED <<inputs, outDir, pdfFile, pc, save_html, html, stdout,
                   effects, error, engine, page, launches, run, prev,
                   convVars>>

NextEnv == Next \/ EnvRemoveHtml

SpecEnv == Init /\ [][NextEnv]_vars

----------------------------------------------------------------------------
(* The checkbox substitution on its own, over every short fragment *)

Alphabet == {"[", " ", "x", "]", "a"}

Fragments == UNION {[1..n -> Alphabet] : n \in 0..MaxLen}

InitConv ==
    /\ conv_in \in Fragments
    /\ conv_out = <<>>
    /\ conv_done = FALSE
    /\ files = {}
    /\ style = "readable"
    /\ outDir = "absent"
    /\ htmlFile = <<>>
    /\ pdfFile = <<>>
    /\ pc = "conv"
    /\ save_html = FALSE
    /\ html = <<>>
    /\ stdout = <<>>
    /\ effects = <<>>
    /\ error = "none"
    /\ engine = NoEngine
    /\ page = <<>>
    /\ launches = 0
    /\ run = 1
    /\ prev = NoPrev

\* lines 119-120 applied to the fragment
ApplyCheckboxSubst ==
    /\ pc = "conv"
    /\ ~conv_done
    /\ conv_out' = CheckboxSubst(conv_in)
    /\ conv_done' = TRUE
    /\ UNCHANGED <<inputs, outDir, htmlFile, pdfFile, pc, save_html, html,
                   stdout, effects, error, engine, page, launches, run, prev,
                   conv_in>>

NextConv == ApplyCheckboxSubst

SpecConv == InitConv /\ [][NextConv]_vars

----------------------------------------------------------------------------
(* Properties *)

Existing(source_dir, filenames) ==
    LET there(n) == <<source_dir, n>> \in files
    IN  SelectSeq(filenames, there)

Missing(source_dir, filenames) ==
    LET gone(n) == <<source_dir, n>> \notin files
    IN  SelectSeq(filenames, gone)

SectionsOf(source_dir, names) ==
    [i \in 1..Len(names) |-> SectionOf(source_dir, names[i])]

Warned ==
    LET w(l) == l.tag = "WARNING"
        ws == SelectSeq(stdout, w)
    IN  [i \in 1..Len(ws) |-> ws[i].file]

Printed(tag) == \E i \in 1..Len(stdout) : stdout[i].tag = tag

Did(e) == e \in Range(effects)

InWith == {"launch", "new_page", "goto", "wait_for_load_state", "pdf",
           "close", "exit_with", "exit_exc"}

\* C1: the sections of the document build_document returns are the existing
\* files of CHAPTERS in their configured order followed by the existing
\* files of EXERCISES in their configured order, each once, whatever subset
\* of the configured files exists.
C1_SectionOrder ==
    html # <<>> =>
        html[1].sections =
            SectionsOf(CONTENT_DIR, Existing(CONTENT_DIR, CHAPTERS))
            \o SectionsOf(EXERCISES_DIR, Existing(EXERCISES_DIR, EXERCISES))

\* a document built with the middle chapter and the first exercise missing
C1_Witness ==
    /\ html # <<>>
    /\ <<CONTENT_DIR, CHAPTERS[1]>> \in files
    /\ <<CONTENT_DIR, CHAPTERS[2]>> \notin files
    /\ <<CONTENT_DIR, CHAPTERS[3]>> \in files
    /\ <<EXERCISES_DIR, EXERCISES[1]>> \notin files
    /\ <<EXERCISES_DIR, EXERCISES[2]>> \in files
    /\ Len(html[1].sections) = 3

\* C2: a missing content file is not fatal: once build_document has run with
\* a readable style sheet, every absent configured file has been warned
\* about (in order) and left out, the document has as many sections as
\* configured files exist, and the run has gone on into render_pdf; it never
\* aborts for anything but a failure of the engine.
C2_MissingNotFatal ==
    (style = "readable" /\ pc \notin {"main", "build", "conv"}
        /\ error # "mkdir") =>
        /\ html # <<>>
        /\ Len(html[1].sections) = Cardinality(files)
        /\ Warned = Missing(CONTENT_DIR, CHAPTERS)
                    \o Missing(EXERCISES_DIR, EXERCISES)
        /\ pc = "render_pdf" \/ Did("write_html")
        /\ pc = "aborted" => error \in EngineErrors

\* exactly one configured file is absent and the renderer has started
C2_Witness ==
    /\ Cardinality(files) = Cardinality(ConfiguredPaths) - 1
    /\ html # <<>>
    /\ Len(html[1].sections) = Len(CHAPTERS) + Len(EXERCISES) - 1
    /\ Len(Warned) = 1
    /\ Did("write_html")
    /\ engine.browser = "open"

\* C3: with the style sheet missing or unreadable the run aborts with the
\* error propagating, the engine is never started or launched, and neither
\* the intermediate nor the final artifact is written.
C3_StyleAbort ==
    style # "readable" =>
        /\ pc \in {"main", "build", "aborted"}
        /\ pc = "aborted" => error \in {"style", "mkdir"}
        /\ (pc = "aborted" /\ outDir = "dir") => error = "style"
        /\ engine = NoEngine
        /\ launches = 0
        /\ ~Did("write_html") /\ ~Did("write_pdf")
        /\ htmlFile = <<>> /\ pdfFile = <<>>
        /\ html = <<>>

C3_Witness ==
    /\ style = "missing"
    /\ pc = "aborted"
    /\ error = "style"
    /\ files = ConfiguredPaths

\* C4: without --html a run that completes ends with the final artifact on
\* disk and the intermediate artifact gone; main removes the intermediate
\* artifact only after the page was paginated, the engine shut down and the
\* size reported; and the removal does not raise when the file is already
\* gone.
C4_CleanupAfterRender ==
    /\ (pc = "done" /\ ~save_html) => (pdfFile # <<>> /\ htmlFile = <<>>)
    /\ (pc \in {"finish", "done"} /\ ~save_html) =>
            (Did("unlink") \/ Did("unlink_absent"))
    /\ (Did("unlink") \/ Did("unlink_absent")) =>
            /\ Did("write_pdf")
            /\ engine = [driver |-> "stopped", browser |-> "closed"]
            /\ Printed("PDF saved")
            /\ ~save_html
    /\ error # "unlink"
    /\ Did("unlink_absent") => pc \in {"finish", "done"}

C4_Witness ==
    /\ pc = "done"
    /\ ~save_html
    /\ Did("unlink")
    /\ pdfFile # <<>>
    /\ htmlFile = <<>>

\* C5: with --html, from the moment render_pdf has written the intermediate
\* artifact to the end of the run the file holds exactly the document
\* build_document returned.
C5_RetainedVerbatim ==
    (save_html /\ Did("write_html")) =>
        /\ html # <<>>
        /\ htmlFile = html
        /\ ~Did("unlink") /\ ~Did("unlink_absent")

C5_Witness ==
    /\ pc = "done"
    /\ save_html
    /\ htmlFile = html
    /\ html # <<>>
    /\ Len(html[1].sections) >= 2

\* C6: outside the with block of render_pdf no driver is running and no
\* browser is open, however the block was left.
C6_EngineReleased ==
    pc \notin InWith =>
        /\ engine.driver # "running"
        /\ engine.browser # "open"

\* the block was left on a failed pagination, before browser.close()
C6_Witness ==
    /\ pc = "aborted"
    /\ error = "pdf"
    /\ engine = [driver |-> "stopped", browser |-> "closed"]

\* C7: a failure of the engine is propagated without a retry: the browser
\* is launched at most once in a run, and once an engine call has failed
\* the run is on its way out, never reports the size and never prints Done.
C7_NoRetry ==
    /\ launches <= 1
    /\ error \in EngineErrors =>
        /\ pc \in {"exit_exc", "aborted"}
        /\ ~Printed("PDF saved")
        /\ ~Printed("Done")

C7_Witness ==
    /\ pc = "aborted"
    /\ error = "goto"
    /\ launches = 1

\* the one-pass substitution of both tokens, left to right
RECURSIVE ExpectedSubst(_)
ExpectedSubst(s) ==
    IF Len(s) < 3 THEN s
    ELSE IF SubSeq(s, 1, 3) = UncheckedToken
         THEN UncheckedWidget \o ExpectedSubst(SubSeq(s, 4, Len(s)))
    ELSE IF SubSeq(s, 1, 3) = CheckedToken
         THEN CheckedWidget \o ExpectedSubst(SubSeq(s, 4, Len(s)))
    ELSE <<Head(s)>> \o ExpectedSubst(Tail(s))

HasToken(s, t) == \E i \in 1..(Len(s) - 2) : SubSeq(s, i, i + 2) = t

\* C8: the two successive replacements turn every "[ ]" of the fragment into
\* the unchecked widget and every "[x]" into the checked widget and leave
\* the rest as it was: the result is the one-pass substitution of both
\* tokens, and no token is left in it.
C8_CheckboxSubst ==
    conv_done =>
        /\ conv_out = ExpectedSubst(conv_in)
        /\ ~HasToken(conv_out, UncheckedToken)
        /\ ~HasToken(conv_out, CheckedToken)

\* a fragment with a checked box followed by an unchecked box
C8_Witness ==
    /\ conv_done
    /\ conv_in = CheckedToken \o UncheckedToken
    /\ conv_out = CheckedWidget \o UncheckedWidget

\* C9: a second run after a completed one, with the same flag and the same
\* inputs, is not stopped by what the first run left (the output directory,
\* the final artifact): it can only fail in the engine, it assembles the
\* same document, and when it completes the output directory holds what it
\* held after the first run.
C9_Idempotent ==
    (run >= 2 /\ prev.outcome = "done" /\ pc # "main"
        /\ save_html = prev.flag) =>
        /\ error \in EngineErrors \cup {"none"}
        /\ html # <<>> => html = prev.html
        /\ pc = "done" =>
            /\ htmlFile = prev.htmlFile
            /\ pdfFile = prev.pdfFile
            /\ outDir = prev.outDir

C9_Witness ==
    /\ run = 2
    /\ prev.outcome = "done"
    /\ pc = "done"
    /\ save_html = prev.flag
    /\ Len(html[1].sections) >= 2
    /\ pdfFile = prev.pdfFile

\* C10: the intermediate artifact is written before the engine is started
\* and removed only on the way to Done, so a run that aborts on a failure of
\* the engine leaves the intermediate artifact on disk, holding the
\* document, with or without --html.
C10_LeftoverOnFailure ==
    /\ engine.driver # "none" => Did("write_html")
    /\ (pc = "aborted" /\ error \in EngineErrors) =>
            (htmlFile # <<>> /\ htmlFile = html)
    /\ error # "none" => ~Did("unlink")

C10_Witness ==
    /\ pc = "aborted"
    /\ error = "wait_for_load_state"
    /\ ~save_html
    /\ htmlFile # <<>>

====
